---- MODULE Spec2Model ----
(***************************************************************************)
(* Model of the Item API (app/main.py, app/schemas.py): an in-memory       *)
(* dictionary items_db and the four request handlers over it, behind the   *)
(* request-body validation of the Item schema.                             *)
(*                                                                         *)
(* Text is a sequence of one-character strings.  An Optional value is a    *)
(* sequence of length 0 (None) or 1 (the value).                           *)
(***************************************************************************)
EXTENDS Integers, Sequences, FiniteSets, TLC

VARIABLES
    items_db,   \* main.py:7   the dictionary: a function from its keys to Items
    req,        \* the request last served when requests are served one at a time
    resp,       \* the response to req
    pc,         \* per worker thread: "idle", or "checked" (past the membership test)
    treq,       \* per worker thread: the request it is serving
    tresp,      \* per worker thread: the response to its last request, once sent
    raw,        \* a request body as received, before validation
    outcome     \* the result of validating raw: "pending", "accepted", "rejected"

vars == <<items_db, req, resp, pc, treq, tresp, raw, outcome>>

-----------------------------------------------------------------------------
(* Bounds of the model *)

MaxId == 2          \* ids and path ids range over 0..MaxId
NameTry == 51       \* names of every length 0..NameTry are validated
DescTry == 201      \* descriptions of every length 0..DescTry are validated
NumThreads == 2     \* worker threads serving requests concurrently

-----------------------------------------------------------------------------
(* schemas.py: the Item schema *)

MinNameLen == 3
MaxNameLen == 50
MaxDescriptionLen == 200

None == <<>>
Some(v) == <<v>>

Whitespace == {" ", "\t", "\n"}

\* str.lstrip() / str.rstrip() / str.strip() with no argument
RECURSIVE lstrip(_)
lstrip(s) == IF s # <<>> /\ Head(s) \in Whitespace THEN lstrip(Tail(s)) ELSE s

RECURSIVE rstrip(_)
rstrip(s) ==
    IF s # <<>> /\ s[Len(s)] \in Whitespace
    THEN rstrip(SubSeq(s, 1, Len(s) - 1))
    ELSE s

strip(s) == rstrip(lstrip(s))

\* the constraint written ge=0 in place of gt=0
id_ok_ge(v) == v >= 0

\* id: int = Field(..., gt=0)
id_ok(v) == v > 0

\* the schema without its validator
name_never_blank(v) == TRUE

\* the validator raises ValueError when `not v.strip()`
name_must_not_be_blank(v) == strip(v) # <<>>

\* name: str = Field(..., min_length=3, max_length=50) and then the validator
name_ok(v) ==
    /\ Len(v) >= MinNameLen
    /\ Len(v) <= MaxNameLen
    /\ name_must_not_be_blank(v)

\* description: Optional[str] = Field(default=None, max_length=200)
description_ok(d) == d = None \/ Len(d[1]) <= MaxDescriptionLen

\* the body decodes into an Item exactly when every field passes
ItemValid(body) ==
    /\ id_ok(body.id)
    /\ name_ok(body.name)
    /\ description_ok(body.description)

Item(i, n, d) == [id |-> i, name |-> n, description |-> d]

-----------------------------------------------------------------------------
(* Responses *)

Response(code, item) == [status |-> code, body |-> Some(item), detail |-> ""]

HTTPException(code, msg) == [status |-> code, body |-> None, detail |-> msg]

\* the 422 response the framework sends when the body fails validation
RequestValidationError == [status |-> 422, body |-> None, detail |-> "validation error"]

\* a handler left by an exception other than HTTPException
InternalServerError == [status |-> 500, body |-> None, detail |-> "Internal Server Error"]

NoResponse == [status |-> 0, body |-> None, detail |-> ""]

AlreadyExistsDetail == "Item already exists with this ID"
NotFoundDetail == "Item not found"
DeletedDetail(item_id) == "Item " \o ToString(item_id) \o " deleted successfully"

-----------------------------------------------------------------------------
(* The dictionary *)

EmptyDb == [k \in {} |-> None]

\* items_db[k] = v
SetItem(db, k, v) == [x \in (DOMAIN db) \cup {k} |-> IF x = k THEN v ELSE db[x]]

\* del items_db[k]   (k is a key)
DelItem(db, k) == [x \in (DOMAIN db) \ {k} |-> db[x]]

-----------------------------------------------------------------------------
(* main.py: the handlers.  Each is a membership test on the dictionary       *)
(* followed by the statement that acts on it; as a whole a handler takes     *)
(* (store, arguments) to (response, store).                                  *)

Result(r, db) == [resp |-> r, db |-> db]

\* create without its membership test
create_never_rejects(db, item) == FALSE

\* main.py:16-17   if item.id in items_db: raise HTTPException(400, ...)
create_rejects(db, item) == item.id \in DOMAIN db

create_raise(db, item) == Result(HTTPException(400, AlreadyExistsDetail), db)

\* create that returns the item without storing it
create_not_stored(db, item) == Result(Response(201, item), db)

\* main.py:18-19   items_db[item.id] = item; return item
create_store(db, item) == Result(Response(201, item), SetItem(db, item.id, item))

create_item(db, item) ==
    IF create_rejects(db, item) THEN create_raise(db, item) ELSE create_store(db, item)

\* main.py:28-31   item = items_db.get(item_id); raise 404 if it is None
get_item(db, item_id) ==
    IF item_id \notin DOMAIN db
    THEN Result(HTTPException(404, NotFoundDetail), db)
    ELSE Result(Response(200, db[item_id]), db)

\* update without its membership test: it would insert
update_never_rejects(db, item_id, updated_item) == FALSE

\* main.py:40-41   if item_id not in items_db: raise HTTPException(404, ...)
update_rejects(db, item_id, updated_item) == item_id \notin DOMAIN db

update_raise(db, item_id, updated_item) == Result(HTTPException(404, NotFoundDetail), db)

\* update that keeps the stored description when the new one is absent
update_merge(db, item_id, updated_item) ==
    Result(Response(200, updated_item),
           SetItem(db, item_id,
                   IF updated_item.description = None /\ item_id \in DOMAIN db
                   THEN [updated_item EXCEPT !.description = db[item_id].description]
                   ELSE updated_item))

\* main.py:42-43   items_db[item_id] = updated_item; return updated_item
update_store(db, item_id, updated_item) ==
    Result(Response(200, updated_item), SetItem(db, item_id, updated_item))

update_item(db, item_id, updated_item) ==
    IF update_rejects(db, item_id, updated_item)
    THEN update_raise(db, item_id, updated_item)
    ELSE update_store(db, item_id, updated_item)

\* main.py:52-53   if item_id not in items_db: raise HTTPException(404, ...)
delete_rejects(db, item_id) == item_id \notin DOMAIN db

delete_raise(db, item_id) == Result(HTTPException(404, NotFoundDetail), db)

\* delete that confirms without removing the key
delete_keeps(db, item_id) == Result(HTTPException(200, DeletedDetail(item_id)), db)

\* main.py:54-55   del items_db[item_id]; return {"detail": ...}
\* del raises KeyError when the key is gone, which no handler catches
delete_remove(db, item_id) ==
    IF item_id \in DOMAIN db
    THEN Result(HTTPException(200, DeletedDetail(item_id)), DelItem(db, item_id))
    ELSE Result(InternalServerError, db)

delete_item(db, item_id) ==
    IF delete_rejects(db, item_id) THEN delete_raise(db, item_id) ELSE delete_remove(db, item_id)

-----------------------------------------------------------------------------
(* Inputs *)

Ids == 0..MaxId

Repeat(c, n) == [i \in 1..n |-> c]

Item1 == <<"I", "t", "e", "m", "1">>
UpdatedItem == <<"U", "p", "d", "a", "t", "e", "d", "I", "t", "e", "m">>
ATestItem == <<"A", " ", "t", "e", "s", "t", " ", "i", "t", "e", "m">>

\* bodies that pass validation: every positive id with two field pairs
ValidBodies ==
    { Item(i, Item1, Some(ATestItem)) : i \in 1..MaxId }
        \cup { Item(i, UpdatedItem, None) : i \in 1..MaxId }

\* bodies that break one constraint each
InvalidBodies ==
    { Item(0, Item1, None),                                         \* id not > 0
      Item(1, <<"a", "b">>, None),                                  \* name too short
      Item(1, <<" ", " ", " ">>, None),                             \* name blank
      Item(1, Item1, Some(Repeat("d", MaxDescriptionLen + 1))) }    \* description too long

Bodies == ValidBodies \cup InvalidBodies

Request(op, path, body) == [op |-> op, item_id |-> path, item |-> body]

NoRequest == Request("none", None, None)

-----
(* Requests served one at a time *)

Serve(r, res) ==
    /\ req' = r
    /\ resp' = res.resp
    /\ items_db' = res.db
    /\ UNCHANGED <<pc, treq, tresp, raw, outcome>>

\* POST /items/
PostItem(body) ==
    Serve(Request("create", None, Some(body)),
          IF ItemValid(body)
          THEN create_item(items_db, body)
          ELSE Result(RequestValidationError, items_db))

\* GET /items/{item_id}
GetItem(item_id) ==
    Serve(Request("get", Some(item_id), None), get_item(items_db, item_id))

\* PUT /items/{item_id}
PutItem(item_id, body) ==
    Serve(Request("update", Some(item_id), Some(body)),
          IF ItemValid(body)
          THEN update_item(items_db, item_id, body)
          ELSE Result(RequestValidationError, items_db))

\* DELETE /items/{item_id}
DeleteItem(item_id) ==
    Serve(Request("delete", Some(item_id), None), delete_item(items_db, item_id))

IdleThreads ==
    /\ pc = [t \in 1..NumThreads |-> "idle"]
    /\ treq = [t \in 1..NumThreads |-> NoRequest]
    /\ tresp = [t \in 1..NumThreads |-> NoResponse]

NoValidation ==
    /\ raw = Item(1, <<>>, None)
    /\ outcome = "pending"

Init ==
    /\ items_db = EmptyDb
    /\ req = NoRequest
    /\ resp = NoResponse
    /\ IdleThreads
    /\ NoValidation

Next ==
    \/ \E body \in Bodies : PostItem(body)
    \/ \E item_id \in Ids : GetItem(item_id)
    \/ \E item_id \in Ids, body \in Bodies : PutItem(item_id, body)
    \/ \E item_id \in Ids : DeleteItem(item_id)

Spec == Init /\ [][Next]_vars

-----------------------------------------------------------------------------
(* Requests served concurrently by worker threads.  A thread runs a handler  *)
(* in two steps, the membership test and then the statement acting on the    *)
(* dictionary; other threads may run between the two.  The single read of    *)
(* get_item is one step.                                                     *)

Threads == 1..NumThreads

Reply(t, r) ==
    /\ tresp' = [tresp EXCEPT ![t] = r]
    /\ treq' = [treq EXCEPT ![t] = NoRequest]
    /\ pc' = [pc EXCEPT ![t] = "idle"]

Proceed(t, r) ==
    /\ treq' = [treq EXCEPT ![t] = r]
    /\ tresp' = [tresp EXCEPT ![t] = NoResponse]
    /\ pc' = [pc EXCEPT ![t] = "checked"]

\* POST /items/ up to the membership test
BeginCreate(t, body) ==
    /\ pc[t] = "idle"
    /\ IF ~ItemValid(body)
       THEN Reply(t, RequestValidationError)
       ELSE IF create_rejects(items_db, body)
            THEN Reply(t, create_raise(items_db, body).resp)
            ELSE Proceed(t, Request("create", None, Some(body)))
    /\ UNCHANGED <<items_db, req, resp, raw, outcome>>

\* PUT /items/{item_id} up to the membership test
BeginUpdate(t, item_id, body) ==
    /\ pc[t] = "idle"
    /\ IF ~ItemValid(body)
       THEN Reply(t, RequestValidationError)
       ELSE IF update_rejects(items_db, item_id, body)
            THEN Reply(t, update_raise(items_db, item_id, body).resp)
            ELSE Proceed(t, Request("update", Some(item_id), Some(body)))
    /\ UNCHANGED <<items_db, req, resp, raw, outcome>>

\* DELETE /items/{item_id} up to the membership test
BeginDelete(t, item_id) ==
    /\ pc[t] = "idle"
    /\ IF delete_rejects(items_db, item_id)
       THEN Reply(t, delete_raise(items_db, item_id).resp)
       ELSE Proceed(t, Request("delete", Some(item_id), None))
    /\ UNCHANGED <<items_db, req, resp, raw, outcome>>

\* GET /items/{item_id}
Get(t, item_id) ==
    /\ pc[t] = "idle"
    /\ Reply(t, get_item(items_db, item_id).resp)
    /\ UNCHANGED <<items_db, req, resp, raw, outcome>>

Finish(t, res) ==
    /\ items_db' = res.db
    /\ Reply(t, res.resp)
    /\ UNCHANGED <<req, resp, raw, outcome>>

FinishCreate(t) ==
    /\ pc[t] = "checked"
    /\ treq[t].op = "create"
    /\ Finish(t, create_store(items_db, treq[t].item[1]))

FinishUpdate(t) ==
    /\ pc[t] = "checked"
    /\ treq[t].op = "update"
    /\ Finish(t, update_store(items_db, treq[t].item_id[1], treq[t].item[1]))

FinishDelete(t) ==
    /\ pc[t] = "checked"
    /\ treq[t].op = "delete"
    /\ Finish(t, delete_remove(items_db, treq[t].item_id[1]))

NextConc ==
    \/ \E t \in Threads, body \in Bodies : BeginCreate(t, body)
    \/ \E t \in Threads, item_id \in Ids, body \in Bodies : BeginUpdate(t, item_id, body)
    \/ \E t \in Threads, item_id \in Ids : BeginDelete(t, item_id)
    \/ \E t \in Threads, item_id \in Ids : Get(t, item_id)
    \/ \E t \in Threads : FinishCreate(t)
    \/ \E t \in Threads : FinishUpdate(t)
    \/ \E t \in Threads : FinishDelete(t)

SpecConc == Init /\ [][NextConc]_vars

-----------------------------------------------------------------------------
(* Validation alone: a body is received and decoded *)

\* a name of `lead` blanks, `core` letters and `trail` blanks
NameOf(lead, core, trail) ==
    [i \in 1..(lead + core + trail) |->
        IF i <= lead \/ i > lead + core THEN " " ELSE "a"]

\* names with and without blanks around them, and blank names, of every length
TryNames ==
    { NameOf(l, c, t) : l \in 0..1, c \in 0..(NameTry - 2), t \in 0..1 }
        \cup { Repeat(" ", n) : n \in 0..NameTry }
        \cup { <<"\t", "\n", " ">> }

TryDescriptions == {None} \cup { Some(Repeat("d", n)) : n \in 0..DescTry }

TryIds == {-1, 0, 1}

Decode ==
    /\ outcome = "pending"
    /\ outcome' = IF ItemValid(raw) THEN "accepted" ELSE "rejected"
    /\ UNCHANGED <<items_db, req, resp, pc, treq, tresp, raw>>

InitVal ==
    /\ items_db = EmptyDb
    /\ req = NoRequest
    /\ resp = NoResponse
    /\ IdleThreads
    /\ \E i \in TryIds, n \in TryNames, d \in TryDescriptions : raw = Item(i, n, d)
    /\ outcome = "pending"

NextVal == Decode

SpecVal == InitVal /\ [][NextVal]_vars

-----------------------------------------------------------------------------
(* Properties *)

\* what the specification calls a valid Item
ValidAsSpecified(body) ==
    /\ body.id > 0
    /\ Len(body.name) >= 3
    /\ Len(body.name) <= 50
    /\ \E i \in 1..Len(body.name) : body.name[i] \notin Whitespace
    /\ body.description = None \/ Len(body.description[1]) <= 200

NotFound(r) == r.status = 404 /\ r.detail = "Item not found" /\ r.body = None

Returns(r, code, item) == r.status = code /\ r.body = Some(item)

\* C1: creating a valid Item A whose id is not a key returns 201 with body A,
\* and a get of A.id issued next returns 200 with a body equal to A.
C1_CreateThenGet ==
    [][ /\ (/\ req'.op = "create"
            /\ ItemValid(req'.item[1])
            /\ req'.item[1].id \notin DOMAIN items_db)
           => Returns(resp', 201, req'.item[1])
        /\ (/\ req.op = "create"
            /\ resp.status = 201
            /\ req' = Request("get", Some(req.item[1].id), None))
           => /\ Returns(resp', 200, req.item[1])
              /\ resp'.body[1].id = req.item[1].id
              /\ resp'.body[1].name = req.item[1].name
              /\ resp'.body[1].description = req.item[1].description
      ]_vars

\* a create of a new valid Item has been served and a get of its id would return it
C1_Witness ==
    /\ req.op = "create"
    /\ resp.status = 201
    /\ req.item[1].description # None
    /\ Returns(get_item(items_db, req.item[1].id).resp, 200, req.item[1])

\* C2: create(B) while B.id is a key fails with 400 "Item already exists with
\* this ID" and leaves the store unchanged; a get of B.id issued next still
\* returns the item stored first.
C2_DuplicateCreate ==
    [][ /\ (/\ req'.op = "create"
            /\ ItemValid(req'.item[1])
            /\ req'.item[1].id \in DOMAIN items_db)
           => /\ resp'.status = 400
              /\ resp'.detail = "Item already exists with this ID"
              /\ resp'.body = None
              /\ items_db' = items_db
        /\ (/\ req.op = "create"
            /\ resp.status = 400
            /\ req' = Request("get", Some(req.item[1].id), None))
           => Returns(resp', 200, items_db[req.item[1].id])
      ]_vars

\* a create of a body other than the stored one has been rejected as a duplicate
C2_Witness ==
    /\ req.op = "create"
    /\ resp.status = 400
    /\ items_db[req.item[1].id] # req.item[1]

\* C3: for an id that is not a key, get, update and delete each fail with 404
\* "Item not found" and leave the store unchanged.
C3_NotFound ==
    [][ (/\ req'.op \in {"get", "update", "delete"}
         /\ req'.op = "update" => ItemValid(req'.item[1])
         /\ req'.item_id[1] \notin DOMAIN items_db)
        => /\ NotFound(resp')
           /\ items_db' = items_db
      ]_vars

\* an update of an id that is not a key has been refused beside a stored item
C3_Witness ==
    /\ req.op = "update"
    /\ resp.status = 404
    /\ items_db # EmptyDb
    /\ req.item_id[1] \notin DOMAIN items_db

\* C4: update(id, item) of a key returns 200 with body item; the stored record
\* is item with nothing kept of the previous one, and a get of id issued next
\* returns exactly item.
C4_UpdateReplaces ==
    [][ /\ (/\ req'.op = "update"
            /\ ItemValid(req'.item[1])
            /\ req'.item_id[1] \in DOMAIN items_db)
           => /\ Returns(resp', 200, req'.item[1])
              /\ items_db'[req'.item_id[1]] = req'.item[1]
              /\ req'.item[1].description = None
                    => items_db'[req'.item_id[1]].description = None
        /\ (/\ req.op = "update"
            /\ resp.status = 200
            /\ req' = Request("get", req.item_id, None))
           => Returns(resp', 200, req.item[1])
      ]_vars

\* an update without a description has been served
C4_Witness ==
    /\ req.op = "update"
    /\ resp.status = 200
    /\ req.item[1].description = None
    /\ items_db[req.item_id[1]] = req.item[1]

\* C5: delete(id) of a key returns 200 with detail "Item {id} deleted
\* successfully" and removes the key; a get or delete of id issued next fails
\* with 404.
C5_DeleteRemoves ==
    [][ /\ (/\ req'.op = "delete"
            /\ req'.item_id[1] \in DOMAIN items_db)
           => /\ resp'.status = 200
              /\ resp'.detail =
                    "Item " \o ToString(req'.item_id[1]) \o " deleted successfully"
              /\ req'.item_id[1] \notin DOMAIN items_db'
        /\ (/\ req.op = "delete"
            /\ resp.status = 200
            /\ req'.op \in {"get", "delete"}
            /\ req'.item_id = req.item_id)
           => resp'.status = 404
      ]_vars

\* item 1 has been deleted
C5_Witness ==
    /\ req = Request("delete", Some(1), None)
    /\ resp.status = 200
    /\ resp.detail = "Item 1 deleted successfully"
    /\ 1 \notin DOMAIN items_db

\* C6: every Item in the store has an id field equal to the key it is stored
\* under, and a successful get(k) returns an Item whose id is k.
C6_IdEqualsKey ==
    /\ \A k \in DOMAIN items_db : items_db[k].id = k
    /\ (req.op = "get" /\ resp.status = 200) => resp.body[1].id = req.item_id[1]

\* C7: validation accepts a body exactly when id > 0, the name has length 3 to
\* 50 with a non-whitespace character, and the description is absent or of
\* length at most 200.
C7_Validation ==
    outcome # "pending" => (outcome = "accepted" <=> ValidAsSpecified(raw))

\* a body at the upper limits of both lengths, blanks around its name, is accepted
C7_Witness ==
    /\ outcome = "accepted"
    /\ Len(raw.name) = 50
    /\ raw.name[1] = " "
    /\ raw.description # None
    /\ Len(raw.description[1]) = 200

\* C8: every Item held in the store satisfies the three field constraints.
C8_StoreValid ==
    \A k \in DOMAIN items_db : ValidAsSpecified(items_db[k])

\* a body failing validation has been refused while the store holds an Item
C8_Witness ==
    /\ req.op \in {"create", "update"}
    /\ resp.status = 422
    /\ items_db # EmptyDb

\* C9: with handlers interleaving, every invocation ends in its success result
\* or in an explicit error with a detail message, never in an unhandled failure.
C9_NoUnhandledFailure ==
    \A t \in Threads : tresp[t].status \in {0, 200, 201, 400, 404, 422}

\* C10: when a create finishes while another thread's create of the same id with
\* a different body has been acknowledged with 201 and its item is in the store,
\* it returns 400 and the store keeps the acknowledged item.
C10_OneCreateWins ==
    [][ \A t \in Threads, u \in Threads :
          (/\ t # u
           /\ pc[t] = "checked"
           /\ treq[t].op = "create"
           /\ pc'[t] = "idle"
           /\ treq[t].item[1].id \in DOMAIN items_db
           /\ items_db[treq[t].item[1].id] # treq[t].item[1]
           /\ Returns(tresp[u], 201, items_db[treq[t].item[1].id]))
          => /\ tresp'[t].status = 400
             /\ items_db' = items_db
      ]_vars

====
